---- MODULE Spec2Model ----
(***************************************************************************)
(* Model of music21/alpha/theoryAnalysis/theoryResult.py: the TheoryResult *)
(* hierarchy, which annotates the notes of a finding (color, lyric,        *)
(* editorial.misc entries) and computes the offset of a finding.           *)
(*                                                                         *)
(* One result object and the notes of its finding are modelled at a time;  *)
(* `shape` names the class of the result.  Every method is a pure operator *)
(* on the "world" record w (the result's own attributes and the attributes *)
(* of the notes it refers to), and one action per method applies it with   *)
(* arguments drawn from small sets.                                        *)
(***************************************************************************)
EXTENDS Integers, Sequences, FiniteSets, TLC

VARIABLES shape,   \* class of the result object under study
          w,       \* the result's attributes and its notes' attributes
          cfg,     \* the VerticalityNTuplet handle (nTupletNum, tnlsDict keys, partNumIdentified)
          call,    \* the most recent method call and its arguments
          ret,     \* value returned by the most recent call
          err,     \* TRUE iff the most recent call raised an exception
          twin,    \* a second copy of the world, used to compare call orders
          phase,   \* position of the order comparison
          lastColor \* history: the color argument of the most recent color call

vars == <<shape, w, cfg, call, ret, err, twin, phase, lastColor>>

(***************************************************************************)
(* Bounds of the model.                                                    *)
(***************************************************************************)
NumParts == 2          \* parts of a verticality: part numbers 0..NumParts-1
MaxSelector == 4       \* selector values 0..MaxSelector are tried (0 is in no shape's index set)
MaxPartListLen == 2    \* longest list of part numbers passed by a caller
MaxPlanLen == 2        \* most entries of an editorialMarkDict
MaxOffset == 2         \* note offsets are drawn from 0..MaxOffset

Parts == 0 .. (NumParts - 1)
PartNums == 0 .. NumParts            \* NumParts itself is a part number no verticality has
Selectors == 0 .. MaxSelector
NumNotes == IF 3 * NumParts > 4 THEN 3 * NumParts ELSE 4
Notes == 1 .. NumNotes

ColorArgs == {"red", "blue"}
LyricArgs == {"6", "7"}
MiscKeys == {"k1", "k2"}
MarkKeys == {"k1"}                   \* keys written by markNoteEditorial; "k2" is only queried or preset
MiscValues == {"True", "False"}
Absent == "absent"                   \* key not in editorial.misc
Unset == "None"                      \* attribute never assigned (Python None)

None == [some |-> FALSE]
Some(x) == [some |-> TRUE, val |-> x]

SeqsUpTo(S, n) == UNION {[1 .. k -> S] : k \in 0 .. n}

(***************************************************************************)
(* The finding objects: which note each attribute path names.              *)
(***************************************************************************)
v1n1 == 1
v1n2 == 2
v2n1 == 3
v2n2 == 4
noteStart == 1
noteEnd == 2
n == 1
tnls == <<1, 2, 3>>                  \* n1, n2, n3 of the ThreeNoteLinearSegment

\* Verticality.noteList of the column result: one note per part.
noteList == [i \in 1 .. NumParts |-> i]

\* Verticality.noteFromPart(partNum) of the column result.
noteFromPart(partNum) == noteList[partNum + 1]

\* The note of part partNum in vsnt.verticalities[vsNum].
getObjectsByPart(vsNum, partNum) == vsNum * NumParts + partNum + 1

\* vsnt.tnlsDict[partNum]: the three notes of part partNum across the three verticalities.
tnlsDict(partNum) == <<getObjectsByPart(0, partNum), getObjectsByPart(1, partNum),
                       getObjectsByPart(2, partNum)>>

Constituents(s) ==
    CASE s = "VLQTheoryResult" -> {v1n1, v1n2, v2n1, v2n2}
      [] s = "IntervalTheoryResult" -> {noteStart, noteEnd}
      [] s = "NoteTheoryResult" -> {n}
      [] s = "VerticalityTheoryResult" -> {noteList[i] : i \in 1 .. NumParts}
      [] s = "ThreeNoteLinearSegmentTheoryResult" -> {tnls[i] : i \in 1 .. 3}
      [] s = "VerticalityNTupletTheoryResult" -> 1 .. (3 * NumParts)
      [] OTHER -> {}

(***************************************************************************)
(* TheoryResult.__init__ and the notes as the analysis pass hands them     *)
(* over.                                                                   *)
(***************************************************************************)
TheoryResult_init(colors, offsets, miscs) ==
    [text |-> "", value |-> "", currentColor |-> "",
     color |-> colors,
     lyric |-> [i \in Notes |-> Unset],
     misc |-> miscs,
     offset |-> offsets]

NoColors == [i \in Notes |-> Unset]
NoMisc == [i \in Notes |-> [k \in MiscKeys |-> Absent]]

SetColor(x, note, color) == [x EXCEPT !.color[note] = color]
SetLyric(x, note, value) == [x EXCEPT !.lyric[note] = value]
SetMisc(x, note, key, value) == [x EXCEPT !.misc[note][key] = value]

(***************************************************************************)
(* TheoryResult.color                                                      *)
(***************************************************************************)
TheoryResult_color(x, color) == [x EXCEPT !.currentColor = color]

(***************************************************************************)
(* VLQTheoryResult                                                         *)
(***************************************************************************)
VLQ_defaultNoteList == {1, 2, 3, 4}

\* Mutant: selectors 2 and 3 read in column order (1 -> v1n1, 2 -> v2n1, 3 -> v1n2).
VLQ_color_columnOrder(x, color, sel) ==
    LET x0 == [x EXCEPT !.currentColor = color]
        x1 == IF 1 \in sel THEN SetColor(x0, v1n1, color) ELSE x0
        x2 == IF 2 \in sel THEN SetColor(x1, v2n1, color) ELSE x1
        x3 == IF 3 \in sel THEN SetColor(x2, v1n2, color) ELSE x2
        x4 == IF 4 \in sel THEN SetColor(x3, v2n2, color) ELSE x3
    IN x4

\* Mutant: the second note takes the color the first note currently has.
VLQ_color_copiesFirst(x, color, sel) ==
    LET x0 == [x EXCEPT !.currentColor = color]
        x1 == IF 1 \in sel THEN SetColor(x0, v1n1, color) ELSE x0
        x2 == IF 2 \in sel THEN SetColor(x1, v1n2, x1.color[v1n1]) ELSE x1
        x3 == IF 3 \in sel THEN SetColor(x2, v2n1, color) ELSE x2
        x4 == IF 4 \in sel THEN SetColor(x3, v2n2, color) ELSE x3
    IN x4

VLQ_color(x, color, sel) ==
    LET x0 == [x EXCEPT !.currentColor = color]
        x1 == IF 1 \in sel THEN SetColor(x0, v1n1, color) ELSE x0
        x2 == IF 2 \in sel THEN SetColor(x1, v1n2, color) ELSE x1
        x3 == IF 3 \in sel THEN SetColor(x2, v2n1, color) ELSE x2
        x4 == IF 4 \in sel THEN SetColor(x3, v2n2, color) ELSE x3
    IN x4

(***************************************************************************)
(* IntervalTheoryResult                                                    *)
(***************************************************************************)
Interval_defaultNoteList == {1, 2}

Interval_color(x, color, sel) ==
    LET x0 == [x EXCEPT !.currentColor = color]
        x1 == IF 1 \in sel THEN SetColor(x0, noteStart, color) ELSE x0
        x2 == IF 2 \in sel THEN SetColor(x1, noteEnd, color) ELSE x1
    IN x2

(***************************************************************************)
(* NoteTheoryResult                                                        *)
(***************************************************************************)
Note_color(x, color) == SetColor([x EXCEPT !.currentColor = color], n, color)

(***************************************************************************)
(* VerticalityTheoryResult                                                 *)
(***************************************************************************)
RECURSIVE ColorParts(_, _, _)
\* for partNum in partList: self.vs.noteFromPart(partNum).color = color
\* The loop stops at the first part number the verticality does not have.
ColorParts(x, color, partList) ==
    IF partList = <<>> THEN x
    ELSE IF Head(partList) \notin Parts THEN x
    ELSE ColorParts(SetColor(x, noteFromPart(Head(partList)), color), color, Tail(partList))

RECURSIVE ColorNotes(_, _, _)
\* for n in self.vs.noteList: n.color = color
ColorNotes(x, color, ns) ==
    IF ns = <<>> THEN x
    ELSE ColorNotes(SetColor(x, Head(ns), color), color, Tail(ns))

\* partList is None or a list; None and the empty list are both falsy.
Verticality_color(x, color, partList) ==
    IF partList.some /\ partList.val # <<>>
    THEN ColorParts(x, color, partList.val)
    ELSE ColorNotes(x, color, noteList)

Verticality_colorRaises(partList) ==
    /\ partList.some
    /\ \E i \in 1 .. Len(partList.val) : partList.val[i] \notin Parts

(***************************************************************************)
(* ThreeNoteLinearSegmentTheoryResult                                      *)
(***************************************************************************)
\* Mutant: the default selects all three notes.
TNLS_defaultNoteList_all == {1, 2, 3}

TNLS_defaultNoteList == {2}

TNLS_color(x, seg, color, sel) ==
    LET x1 == IF 1 \in sel THEN SetColor(x, seg[1], color) ELSE x
        x2 == IF 2 \in sel THEN SetColor(x1, seg[2], color) ELSE x1
        x3 == IF 3 \in sel THEN SetColor(x2, seg[3], color) ELSE x2
    IN x3

(***************************************************************************)
(* VerticalityNTupletTheoryResult                                          *)
(***************************************************************************)
\* Mutant: the nTupletNum == 3 test is missing.
NTuplet_color_anyArity(x, c, color, partNum, sel) ==
    IF partNum.some
    THEN IF partNum.val \in c.tnlsKeys
         THEN TNLS_color(x, tnlsDict(partNum.val), color, TNLS_defaultNoteList)
         ELSE x
    ELSE IF c.partNumIdentified.some
         THEN IF c.partNumIdentified.val \in c.tnlsKeys
              THEN TNLS_color(x, tnlsDict(c.partNumIdentified.val), color, {2})
              ELSE x
         ELSE x

\* partNum and sel are None or Some(..); sel is overwritten by [] when None and
\* is not read afterwards.
NTuplet_color(x, c, color, partNum, sel) ==
    IF partNum.some
    THEN IF c.nTupletNum = 3 /\ partNum.val \in c.tnlsKeys
         THEN TNLS_color(x, tnlsDict(partNum.val), color, TNLS_defaultNoteList)
         ELSE x
    ELSE IF c.partNumIdentified.some
         THEN IF c.nTupletNum = 3 /\ c.partNumIdentified.val \in c.tnlsKeys
              THEN TNLS_color(x, tnlsDict(c.partNumIdentified.val), color, {2})
              ELSE x
         ELSE x

\* self.vsnt.tnlsDict[key] raises KeyError for a key the dictionary lacks.
NTuplet_colorRaises(c, partNum) ==
    IF partNum.some
    THEN c.nTupletNum = 3 /\ partNum.val \notin c.tnlsKeys
    ELSE /\ c.partNumIdentified.some
         /\ c.nTupletNum = 3
         /\ c.partNumIdentified.val \notin c.tnlsKeys

(***************************************************************************)
(* offset: Python's built-in max and min over the arguments in call order. *)
(***************************************************************************)
RECURSIVE PyMax(_)
PyMax(args) ==
    IF Len(args) = 1 THEN args[1]
    ELSE LET m == PyMax(SubSeq(args, 1, Len(args) - 1))
         IN IF args[Len(args)] > m THEN args[Len(args)] ELSE m

RECURSIVE PyMin(_)
PyMin(args) ==
    IF Len(args) = 1 THEN args[1]
    ELSE LET m == PyMin(SubSeq(args, 1, Len(args) - 1))
         IN IF args[Len(args)] < m THEN args[Len(args)] ELSE m

\* Mutant: the last note of the quartet is left out.
VLQ_offset_threeNotes(x, leftAlign) ==
    IF leftAlign
    THEN PyMin(<<x.offset[v1n1], x.offset[v2n1], x.offset[v1n2]>>)
    ELSE PyMax(<<x.offset[v1n1], x.offset[v2n1], x.offset[v1n2]>>)

VLQ_offset(x, leftAlign) ==
    IF leftAlign
    THEN PyMin(<<x.offset[v1n1], x.offset[v2n1], x.offset[v1n2], x.offset[v2n2]>>)
    ELSE PyMax(<<x.offset[v1n1], x.offset[v2n1], x.offset[v1n2], x.offset[v2n2]>>)

Interval_offset(x, leftAlign) ==
    IF leftAlign
    THEN PyMin(<<x.offset[noteStart], x.offset[noteEnd]>>)
    ELSE PyMax(<<x.offset[noteStart], x.offset[noteEnd]>>)

(***************************************************************************)
(* hasEditorial                                                            *)
(***************************************************************************)
\* miscKey in note.editorial.misc and note.editorial.misc[miscKey] == editorialValue
NoteHasEditorial(x, note, miscKey, editorialValue) ==
    x.misc[note][miscKey] # Absent /\ x.misc[note][miscKey] = editorialValue

\* Mutant: the fourth note is not consulted.
VLQ_hasEditorial_threeNotes(x, miscKey, editorialValue) ==
    \/ NoteHasEditorial(x, v1n1, miscKey, editorialValue)
    \/ NoteHasEditorial(x, v1n2, miscKey, editorialValue)
    \/ NoteHasEditorial(x, v2n1, miscKey, editorialValue)

VLQ_hasEditorial(x, miscKey, editorialValue) ==
    \/ NoteHasEditorial(x, v1n1, miscKey, editorialValue)
    \/ NoteHasEditorial(x, v1n2, miscKey, editorialValue)
    \/ NoteHasEditorial(x, v2n1, miscKey, editorialValue)
    \/ NoteHasEditorial(x, v2n2, miscKey, editorialValue)

Interval_hasEditorial(x, miscKey, editorialValue) ==
    \/ NoteHasEditorial(x, noteStart, miscKey, editorialValue)
    \/ NoteHasEditorial(x, noteEnd, miscKey, editorialValue)

(***************************************************************************)
(* markNoteEditorial and lyric                                             *)
(***************************************************************************)
VLQ_defaultMarkList == {1, 2, 3, 4}

\* Mutant: the test for the fourth note repeats the test for the third.
VLQ_markNoteEditorial_repeatedTest(x, editorialDictKey, editorialValue, editorialMarkList) ==
    LET x1 == IF 1 \in editorialMarkList
              THEN SetMisc(x, v1n1, editorialDictKey, editorialValue) ELSE x
        x2 == IF 2 \in editorialMarkList
              THEN SetMisc(x1, v1n2, editorialDictKey, editorialValue) ELSE x1
        x3 == IF 3 \in editorialMarkList
              THEN SetMisc(x2, v2n1, editorialDictKey, editorialValue) ELSE x2
        x4 == IF 3 \in editorialMarkList
              THEN SetMisc(x3, v2n2, editorialDictKey, editorialValue) ELSE x3
    IN x4

VLQ_markNoteEditorial(x, editorialDictKey, editorialValue, editorialMarkList) ==
    LET x1 == IF 1 \in editorialMarkList
              THEN SetMisc(x, v1n1, editorialDictKey, editorialValue) ELSE x
        x2 == IF 2 \in editorialMarkList
              THEN SetMisc(x1, v1n2, editorialDictKey, editorialValue) ELSE x1
        x3 == IF 3 \in editorialMarkList
              THEN SetMisc(x2, v2n1, editorialDictKey, editorialValue) ELSE x2
        x4 == IF 4 \in editorialMarkList
              THEN SetMisc(x3, v2n2, editorialDictKey, editorialValue) ELSE x3
    IN x4

Interval_defaultLyricList == {2}

Interval_lyric(x, value, sel) ==
    LET x1 == IF 1 \in sel THEN SetLyric(x, noteStart, value) ELSE x
        x2 == IF 2 \in sel THEN SetLyric(x1, noteEnd, value) ELSE x1
    IN x2

\* Default editorialMarkDict = {2:[1]}: a list of (vsNum, partNumList) items in
\* dictionary order.
NTuplet_defaultMarkDict == << <<2, <<1>> >> >>

RECURSIVE MarkParts(_, _, _, _, _)
\* for unused_counter_partNum in partNumList:
\*     verticalities[vsNum].getObjectsByPart(0, ...).editorial.misc[key] = value
MarkParts(x, vsNum, partNumList, key, value) ==
    IF partNumList = <<>> THEN x
    ELSE MarkParts(SetMisc(x, getObjectsByPart(vsNum, 0), key, value),
                   vsNum, Tail(partNumList), key, value)

\* verticalities[vsNum] raises IndexError when the n-tuplet has no such verticality;
\* it is evaluated only inside the inner loop.
ItemRaises(c, item) == item[2] # <<>> /\ item[1] >= c.nTupletNum

RECURSIVE MarkItems(_, _, _, _, _)
MarkItems(x, c, items, key, value) ==
    IF items = <<>> THEN x
    ELSE IF ItemRaises(c, Head(items)) THEN x
    ELSE MarkItems(MarkParts(x, Head(items)[1], Head(items)[2], key, value),
                   c, Tail(items), key, value)

NTuplet_markNoteEditorial(x, c, editorialDictKey, editorialValue, editorialMarkDict) ==
    LET items == IF editorialMarkDict.some THEN editorialMarkDict.val
                 ELSE NTuplet_defaultMarkDict
    IN MarkItems(x, c, items, editorialDictKey, editorialValue)

NTuplet_markRaises(c, editorialMarkDict) ==
    LET items == IF editorialMarkDict.some THEN editorialMarkDict.val
                 ELSE NTuplet_defaultMarkDict
    IN \E i \in 1 .. Len(items) : ItemRaises(c, items[i])

(***************************************************************************)
(* Initial states: a freshly constructed result over the notes of its      *)
(* finding.                                                                *)
(***************************************************************************)
Shapes == {"TheoryResult", "VLQTheoryResult", "IntervalTheoryResult", "NoteTheoryResult",
           "VerticalityTheoryResult", "ThreeNoteLinearSegmentTheoryResult",
           "VerticalityNTupletTheoryResult"}

Optional(S) == {None} \cup {Some(e) : e \in S}

NoCfg == [nTupletNum |-> 0, tnlsKeys |-> {}, partNumIdentified |-> None]

\* VerticalityNTupletTheoryResult.__init__(vsnt, partNumIdentified): an n-tuplet of
\* two or three verticalities; partNumIdentified, when given for a triplet, is a key
\* of tnlsDict.
NTupletCfgs ==
    {c \in [nTupletNum : {2, 3}, tnlsKeys : SUBSET Parts,
            partNumIdentified : Optional(Parts)] :
        (c.nTupletNum = 3 /\ c.partNumIdentified.some)
            => c.partNumIdentified.val \in c.tnlsKeys}

AllCfgs == NTupletCfgs \cup {NoCfg}

Cfgs(s) == IF s = "VerticalityNTupletTheoryResult" THEN NTupletCfgs ELSE {NoCfg}

\* The notes belong to the score, not to the result: they may already carry a color
\* (here "green" on every note, or none), offsets and editorial entries.
InitWith(shapes, cfgChoices, colorChoices, offsetValues, miscOf) ==
    /\ shape \in shapes
    /\ cfg \in Cfgs(shape) \cap cfgChoices
    /\ \E c \in colorChoices, o \in [Constituents(shape) -> offsetValues],
          m \in [Constituents(shape) -> miscOf[shape]] :
          LET offsets == [i \in Notes |-> IF i \in Constituents(shape) THEN o[i] ELSE 0]
              miscs == [i \in Notes |-> IF i \in Constituents(shape) THEN m[i]
                                                                     ELSE NoMisc[i]]
          IN /\ w = TheoryResult_init(c, offsets, miscs)
             /\ twin = TheoryResult_init(c, offsets, miscs)
    /\ call = [op |-> "__init__"]
    /\ ret = None
    /\ err = FALSE
    /\ phase = "idle"
    /\ lastColor = None

(***************************************************************************)
(* The color methods.                                                      *)
(***************************************************************************)
BaseColor ==
    /\ shape = "TheoryResult"
    /\ \E c \in ColorArgs :
          /\ w' = TheoryResult_color(w, c)
          /\ call' = [op |-> "color", color |-> c]
          /\ lastColor' = Some(c)
    /\ ret' = None /\ err' = FALSE
    /\ UNCHANGED <<shape, cfg, twin, phase>>

VLQColor ==
    /\ shape = "VLQTheoryResult"
    /\ \E c \in ColorArgs, a \in Optional(SUBSET Selectors) :
          /\ w' = VLQ_color(w, c, IF a.some THEN a.val ELSE VLQ_defaultNoteList)
          /\ call' = [op |-> "color", color |-> c, noteList |-> a]
          /\ lastColor' = Some(c)
    /\ ret' = None /\ err' = FALSE
    /\ UNCHANGED <<shape, cfg, twin, phase>>

IntervalColor ==
    /\ shape = "IntervalTheoryResult"
    /\ \E c \in ColorArgs, a \in Optional(SUBSET Selectors) :
          /\ w' = Interval_color(w, c, IF a.some THEN a.val ELSE Interval_defaultNoteList)
          /\ call' = [op |-> "color", color |-> c, noteList |-> a]
          /\ lastColor' = Some(c)
    /\ ret' = None /\ err' = FALSE
    /\ UNCHANGED <<shape, cfg, twin, phase>>

NoteColor ==
    /\ shape = "NoteTheoryResult"
    /\ \E c \in ColorArgs :
          /\ w' = Note_color(w, c)
          /\ call' = [op |-> "color", color |-> c]
          /\ lastColor' = Some(c)
    /\ ret' = None /\ err' = FALSE
    /\ UNCHANGED <<shape, cfg, twin, phase>>

VerticalityColor ==
    /\ shape = "VerticalityTheoryResult"
    /\ \E c \in ColorArgs, a \in Optional(SeqsUpTo(PartNums, MaxPartListLen)) :
          /\ w' = Verticality_color(w, c, a)
          /\ err' = Verticality_colorRaises(a)
          /\ call' = [op |-> "color", color |-> c, partList |-> a]
          /\ lastColor' = Some(c)
    /\ ret' = None
    /\ UNCHANGED <<shape, cfg, twin, phase>>

TNLSColor ==
    /\ shape = "ThreeNoteLinearSegmentTheoryResult"
    /\ \E c \in ColorArgs, a \in Optional(SUBSET Selectors) :
          /\ w' = TNLS_color(w, tnls, c, IF a.some THEN a.val ELSE TNLS_defaultNoteList)
          /\ call' = [op |-> "color", color |-> c, noteList |-> a]
          /\ lastColor' = Some(c)
    /\ ret' = None /\ err' = FALSE
    /\ UNCHANGED <<shape, cfg, twin, phase>>

NTupletColor ==
    /\ shape = "VerticalityNTupletTheoryResult"
    /\ \E c \in ColorArgs, p \in Optional(PartNums), a \in Optional(SUBSET (1 .. 3)) :
          /\ w' = NTuplet_color(w, cfg, c, p, a)
          /\ err' = NTuplet_colorRaises(cfg, p)
          /\ call' = [op |-> "color", color |-> c, partNum |-> p, noteList |-> a]
          /\ lastColor' = Some(c)
    /\ ret' = None
    /\ UNCHANGED <<shape, cfg, twin, phase>>

UniformColors == {[i \in Notes |-> c] : c \in {Unset, "green"}}

NoEntries == [s \in Shapes |-> {[k \in MiscKeys |-> Absent]}]

InitColor == InitWith(Shapes, AllCfgs, UniformColors, {0}, NoEntries)

NextColor ==
    \/ BaseColor
    \/ VLQColor
    \/ IntervalColor
    \/ NoteColor
    \/ VerticalityColor
    \/ TNLSColor
    \/ NTupletColor

SpecColor == InitColor /\ [][NextColor]_vars

(***************************************************************************)
(* Properties of the color methods.                                        *)
(***************************************************************************)
\* The note a positional selector names, per shape.
Positions(s) ==
    CASE s = "VLQTheoryResult" -> 1 .. 4
      [] s = "IntervalTheoryResult" -> 1 .. 2
      [] s = "ThreeNoteLinearSegmentTheoryResult" -> 1 .. 3
      [] OTHER -> {}

PosNote(s, i) ==
    CASE s = "VLQTheoryResult" -> <<v1n1, v1n2, v2n1, v2n2>>[i]
      [] s = "IntervalTheoryResult" -> <<noteStart, noteEnd>>[i]
      [] s = "ThreeNoteLinearSegmentTheoryResult" -> tnls[i]

SelectedNotes(s, sel) == {PosNote(s, i) : i \in Positions(s) \cap sel}

SelectionStep ==
    /\ shape \in {"VLQTheoryResult", "IntervalTheoryResult",
                  "ThreeNoteLinearSegmentTheoryResult"}
    /\ call'.op = "color"
    /\ call'.noteList.some

\* C1 as stated: after color(c, selection) on a pair, quad or triple, a note has
\* color c if and only if its position is in selection, every note outside the
\* selection keeps its color, and no error is raised.
C1_ColorIffSelected ==
    [][SelectionStep =>
        /\ err' = FALSE
        /\ \A i \in Positions(shape) :
              w'.color[PosNote(shape, i)] = call'.color <=> i \in call'.noteList.val
        /\ \A x \in Notes \ SelectedNotes(shape, call'.noteList.val) :
              w'.color[x] = w.color[x]]_vars

\* C1 amended: every note at a selected position has color c, every other note
\* (unselected positions, and whatever an out-of-range selector might name) keeps
\* the color it had, which may itself be c; no error is raised.
C1_ColorSelectedFrameOthers ==
    [][SelectionStep =>
        /\ err' = FALSE
        /\ \A x \in SelectedNotes(shape, call'.noteList.val) :
              w'.color[x] = call'.color
        /\ \A x \in Notes \ SelectedNotes(shape, call'.noteList.val) :
              w'.color[x] = w.color[x]]_vars

C1_Witness ==
    /\ shape = "VLQTheoryResult"
    /\ call.op = "color" /\ call.color = "red" /\ call.noteList = Some({0, 2})
    /\ w.color[v1n2] = "red"
    /\ w.color[v1n1] = "blue" /\ w.color[v2n1] = "blue" /\ w.color[v2n2] = "green"

\* C2: once a color call has been made, currentColor equals the color argument of
\* the most recent color call, for every shape.
C2_CurrentColorIsLastColor ==
    (lastColor.some /\ ~err) => w.currentColor = lastColor.val

DefaultSelectionStep ==
    /\ call'.op = "color"
    /\ err' = FALSE
    /\ \/ shape = "NoteTheoryResult"
       \/ shape \in {"VLQTheoryResult", "IntervalTheoryResult",
                     "ThreeNoteLinearSegmentTheoryResult"} /\ ~call'.noteList.some
       \/ shape = "VerticalityTheoryResult" /\ ~call'.partList.some

\* C3 as stated: a color(c) call with the selection left at its default gives every
\* constituent note of a pair, quad, singleton, column or triple the color c.
C3_DefaultColorsAll ==
    [][DefaultSelectionStep =>
        \A x \in Constituents(shape) : w'.color[x] = call'.color]_vars

\* C3 amended: the default selection colors every constituent note of a pair, quad,
\* singleton and column; for a triple it colors only the middle note n2 and leaves
\* n1 and n3 as they were.
C3_DefaultColorsAllButTriple ==
    [][DefaultSelectionStep =>
        IF shape = "ThreeNoteLinearSegmentTheoryResult"
        THEN /\ w'.color[tnls[2]] = call'.color
             /\ w'.color[tnls[1]] = w.color[tnls[1]]
             /\ w'.color[tnls[3]] = w.color[tnls[3]]
        ELSE \A x \in Constituents(shape) : w'.color[x] = call'.color]_vars

C3_Witness ==
    /\ shape = "ThreeNoteLinearSegmentTheoryResult"
    /\ call.op = "color" /\ call.color = "blue" /\ ~call.noteList.some
    /\ w.color[tnls[2]] = "blue"
    /\ w.color[tnls[1]] = "red" /\ w.color[tnls[3]] = "green"

NTupletColorStep ==
    /\ shape = "VerticalityNTupletTheoryResult"
    /\ call'.op = "color"

\* C4: on a group of arity 3, color(c, partKey, selection) with an explicit partKey
\* colors exactly the selected notes of the triple at tnlsDict[partKey] (all three
\* when selection is omitted) and changes no other note.
C4_GroupColorsSelection ==
    [][(NTupletColorStep /\ cfg.nTupletNum = 3 /\ call'.partNum.some
            /\ call'.partNum.val \in cfg.tnlsKeys) =>
        LET seg == tnlsDict(call'.partNum.val)
            sel == IF call'.noteList.some THEN call'.noteList.val ELSE {1, 2, 3}
            chosen == {seg[i] : i \in sel}
        IN /\ err' = FALSE
           /\ \A x \in chosen : w'.color[x] = call'.color
           /\ \A x \in Notes \ chosen : w'.color[x] = w.color[x]]_vars

\* C8: on a group of arity 2 every color call is a no-op that raises nothing, whether
\* or not a partKey is passed, identifiedPart is set or the key is in tnlsDict; so is
\* a color call on a group of any arity with neither partKey nor identifiedPart.
C8_GroupColorNoOp ==
    [][(NTupletColorStep
            /\ \/ cfg.nTupletNum = 2
               \/ ~call'.partNum.some /\ ~cfg.partNumIdentified.some) =>
        (w' = w /\ err' = FALSE)]_vars

C8_Witness ==
    /\ shape = "VerticalityNTupletTheoryResult"
    /\ cfg.nTupletNum = 2 /\ cfg.partNumIdentified = Some(1) /\ cfg.tnlsKeys = {}
    /\ call.op = "color" /\ call.partNum = Some(0) /\ call.noteList = Some({1, 2, 3})
    /\ \A x \in Notes : w.color[x] = "green"
    /\ ~err

(***************************************************************************)
(* The editorial methods of the quad and pair results.                     *)
(***************************************************************************)
VLQMarkNoteEditorial ==
    /\ shape = "VLQTheoryResult"
    /\ \E k \in MarkKeys, v \in MiscValues, a \in Optional(SUBSET Selectors) :
          /\ w' = VLQ_markNoteEditorial(w, k, v,
                                        IF a.some THEN a.val ELSE VLQ_defaultMarkList)
          /\ call' = [op |-> "markNoteEditorial", key |-> k, value |-> v, markList |-> a]
    /\ ret' = None /\ err' = FALSE
    /\ UNCHANGED <<shape, cfg, twin, phase, lastColor>>

VLQHasEditorial ==
    /\ shape = "VLQTheoryResult"
    /\ \E k \in MiscKeys, v \in MiscValues :
          /\ ret' = Some(VLQ_hasEditorial(w, k, v))
          /\ call' = [op |-> "hasEditorial", key |-> k, value |-> v]
    /\ err' = FALSE
    /\ UNCHANGED <<shape, w, cfg, twin, phase, lastColor>>

IntervalHasEditorial ==
    /\ shape = "IntervalTheoryResult"
    /\ \E k \in MiscKeys, v \in MiscValues :
          /\ ret' = Some(Interval_hasEditorial(w, k, v))
          /\ call' = [op |-> "hasEditorial", key |-> k, value |-> v]
    /\ err' = FALSE
    /\ UNCHANGED <<shape, w, cfg, twin, phase, lastColor>>

\* editorial.misc of a note as the score hands it over.  The pair result has no
\* method that writes editorial entries, so its notes start with any entries; the
\* quad's notes start without entries and receive them from markNoteEditorial.
EditorialEntries ==
    [s \in Shapes |-> IF s = "IntervalTheoryResult"
                      THEN [MiscKeys -> MiscValues \cup {Absent}]
                      ELSE NoEntries[s]]

InitEditorial ==
    InitWith({"VLQTheoryResult", "IntervalTheoryResult"}, AllCfgs, UniformColors, {0},
             EditorialEntries)

NextEditorial ==
    \/ VLQMarkNoteEditorial
    \/ VLQHasEditorial
    \/ IntervalHasEditorial

SpecEditorial == InitEditorial /\ [][NextEditorial]_vars

(***************************************************************************)
(* Properties of hasEditorial and of the quad's markNoteEditorial.         *)
(***************************************************************************)
\* C6: hasEditorial(key, v) of a pair or quad returns true exactly when some
\* constituent note carries key with a value equal to v, raises nothing and changes
\* no state.
C6_HasEditorialIffSomeNote ==
    [][call'.op = "hasEditorial" =>
        /\ ret' = Some(\E x \in Constituents(shape) : w.misc[x][call'.key] = call'.value)
        /\ err' = FALSE
        /\ w' = w]_vars

C6_Witness ==
    /\ shape = "VLQTheoryResult"
    /\ call.op = "hasEditorial" /\ call.key = "k1" /\ call.value = "True"
    /\ ret = Some(TRUE)
    /\ w.misc[v2n2]["k1"] = "True"
    /\ w.misc[v1n1]["k1"] = "False" /\ w.misc[v1n2]["k1"] = Absent
    /\ w.misc[v2n1]["k1"] = "False"

C6_WitnessFalse ==
    /\ shape = "IntervalTheoryResult"
    /\ call.op = "hasEditorial" /\ call.key = "k1" /\ call.value = "True"
    /\ ret = Some(FALSE)
    /\ w.misc[noteStart]["k1"] = "False" /\ w.misc[noteStart]["k2"] = "True"
    /\ w.misc[noteEnd]["k1"] = Absent /\ w.misc[noteEnd]["k2"] = "True"

MarkedNotes(sel) == {PosNote("VLQTheoryResult", i) : i \in (1 .. 4) \cap sel}

\* C7: markNoteEditorial(key, v, subset) of a quad leaves misc[key] = v on every
\* note at a position in subset, leaves the misc mapping of every other note as it
\* was, and changes no color, no lyric, and not the result's text, value or
\* currentColor.
C7_MarkExactlySubset ==
    [][(shape = "VLQTheoryResult" /\ call'.op = "markNoteEditorial") =>
        LET sel == IF call'.markList.some THEN call'.markList.val ELSE {1, 2, 3, 4}
        IN /\ \A x \in MarkedNotes(sel) : w'.misc[x][call'.key] = call'.value
           /\ \A x \in Notes \ MarkedNotes(sel) : w'.misc[x] = w.misc[x]
           /\ w'.color = w.color
           /\ w'.lyric = w.lyric
           /\ w'.text = w.text /\ w'.value = w.value
           /\ w'.currentColor = w.currentColor]_vars

C7_Witness ==
    /\ shape = "VLQTheoryResult"
    /\ call.op = "markNoteEditorial" /\ call.key = "k1" /\ call.value = "True"
    /\ call.markList = Some({1, 3})
    /\ w.misc[v1n1]["k1"] = "True" /\ w.misc[v2n1]["k1"] = "True"
    /\ w.misc[v1n2]["k1"] = "False" /\ w.misc[v2n2]["k1"] = Absent
    /\ \A x \in Notes : w.color[x] = "green"

(***************************************************************************)
(* offset of the quad and pair results, over every assignment of offsets.  *)
(***************************************************************************)
VLQOffset ==
    /\ shape = "VLQTheoryResult"
    /\ \E b \in BOOLEAN :
          /\ ret' = Some(VLQ_offset(w, b))
          /\ call' = [op |-> "offset", leftAlign |-> b]
    /\ err' = FALSE
    /\ UNCHANGED <<shape, w, cfg, twin, phase, lastColor>>

IntervalOffset ==
    /\ shape = "IntervalTheoryResult"
    /\ \E b \in BOOLEAN :
          /\ ret' = Some(Interval_offset(w, b))
          /\ call' = [op |-> "offset", leftAlign |-> b]
    /\ err' = FALSE
    /\ UNCHANGED <<shape, w, cfg, twin, phase, lastColor>>

InitOffset ==
    InitWith({"VLQTheoryResult", "IntervalTheoryResult"}, AllCfgs, UniformColors,
             0 .. MaxOffset, NoEntries)

NextOffset ==
    \/ VLQOffset
    \/ IntervalOffset

SpecOffset == InitOffset /\ [][NextOffset]_vars

\* C9: offset() of a pair or quad is the largest offset among all its constituent
\* notes and offset(leftAlign=True) the smallest, whatever the offsets are; the call
\* changes no state.
C9_OffsetIsMaxOrMin ==
    [][call'.op = "offset" =>
        LET offs == {w.offset[x] : x \in Constituents(shape)}
            r == ret'.val
        IN /\ ret'.some
           /\ r \in offs
           /\ call'.leftAlign => \A o \in offs : r <= o
           /\ ~call'.leftAlign => \A o \in offs : r >= o
           /\ w' = w
           /\ err' = FALSE]_vars

\* Offsets 0, 0, 1, 1 on v1n1, v1n2, v2n1, v2n2: offset() is 1.
C9_Witness ==
    /\ shape = "VLQTheoryResult"
    /\ w.offset[v1n1] = 0 /\ w.offset[v1n2] = 0
    /\ w.offset[v2n1] = 1 /\ w.offset[v2n2] = 1
    /\ call.op = "offset" /\ ~call.leftAlign
    /\ ret = Some(1)

C9_WitnessLast ==
    /\ shape = "VLQTheoryResult"
    /\ w.offset[v1n1] = 1 /\ w.offset[v1n2] = 1
    /\ w.offset[v2n1] = 1 /\ w.offset[v2n2] = 0
    /\ call.op = "offset" /\ call.leftAlign
    /\ ret = Some(0)

(***************************************************************************)
(* markNoteEditorial of the group result.                                  *)
(***************************************************************************)
VsNums == 0 .. 2                     \* verticality indices of a triplet

\* Lists of part numbers without repetition.
PartLists == {l \in SeqsUpTo(Parts, MaxPartListLen) :
                 \A i, j \in 1 .. Len(l) : i # j => l[i] # l[j]}

\* An editorialMarkDict: up to MaxPlanLen items (vsNum, partNumList) with distinct
\* keys, in the dictionary's iteration order.
MarkDictItems == VsNums \X PartLists

MarkDicts ==
    {d \in SeqsUpTo(MarkDictItems, MaxPlanLen) :
        \A i, j \in 1 .. Len(d) : i # j => d[i][1] # d[j][1]}

NTupletMarkNoteEditorial ==
    /\ shape = "VerticalityNTupletTheoryResult"
    /\ \E k \in MarkKeys, v \in MiscValues, d \in Optional(MarkDicts) :
          /\ w' = NTuplet_markNoteEditorial(w, cfg, k, v, d)
          /\ err' = NTuplet_markRaises(cfg, d)
          /\ call' = [op |-> "markNoteEditorial", key |-> k, value |-> v, markDict |-> d]
    /\ ret' = None
    /\ UNCHANGED <<shape, cfg, twin, phase, lastColor>>

FullCfgs == {c \in NTupletCfgs : c.tnlsKeys = Parts /\ ~c.partNumIdentified.some}

InitNTupletEditorial ==
    InitWith({"VerticalityNTupletTheoryResult"}, FullCfgs, {NoColors}, {0}, NoEntries)

NextNTupletEditorial == NTupletMarkNoteEditorial

SpecNTupletEditorial == InitNTupletEditorial /\ [][NextNTupletEditorial]_vars

\* The notes an editorialMarkDict names: part p of verticality v for every item
\* (v, partNumList) and every p in partNumList.
PlanNotes(d) ==
    {getObjectsByPart(d[i][1], d[i][2][j]) : <<i, j>> \in
        {ij \in (1 .. Len(d)) \X (1 .. MaxPartListLen) : ij[2] <= Len(d[ij[1]][2])}}

\* C5: markNoteEditorial(key, value, markPlan) of a group sets misc[key] = value on
\* the note of part p in verticalities[v] for every v in markPlan and every p in
\* markPlan[v], and changes no other note.
C5_MarkNotesOfPlan ==
    [][(shape = "VerticalityNTupletTheoryResult" /\ call'.op = "markNoteEditorial"
            /\ call'.markDict.some /\ ~err') =>
        /\ \A x \in PlanNotes(call'.markDict.val) : w'.misc[x][call'.key] = call'.value
        /\ \A x \in Notes \ PlanNotes(call'.markDict.val) : w'.misc[x] = w.misc[x]]_vars

(***************************************************************************)
(* Order of calls.  Two calls a and b are chosen; w receives a then b, and *)
(* twin, which starts equal to w, receives b then a.  ret, err and         *)
(* lastColor are not used here.                                            *)
(***************************************************************************)
MethodCall(op, value, key, sel, partNum, list) ==
    [op |-> op, value |-> value, key |-> key, sel |-> sel, partNum |-> partNum,
     list |-> list]

\* The calls a caller can make on a result of class s, with arguments that name
\* existing parts, verticalities and tnlsDict keys; an editorialMarkDict has at most
\* one item, naming at most one part.
OrderCalls(s, c) ==
    CASE s \in {"TheoryResult", "NoteTheoryResult"} ->
            {MethodCall("color", v, "", None, None, None) : v \in ColorArgs}
      [] s = "VLQTheoryResult" ->
            {MethodCall("color", v, "", a, None, None) :
                v \in ColorArgs, a \in Optional(SUBSET (1 .. 4))}
            \cup {MethodCall("markNoteEditorial", v, k, a, None, None) :
                v \in MiscValues, k \in MiscKeys, a \in Optional(SUBSET (1 .. 4))}
      [] s = "IntervalTheoryResult" ->
            {MethodCall("color", v, "", a, None, None) :
                v \in ColorArgs, a \in Optional(SUBSET (1 .. 2))}
            \cup {MethodCall("lyric", v, "", a, None, None) :
                v \in LyricArgs, a \in Optional(SUBSET (1 .. 2))}
      [] s = "VerticalityTheoryResult" ->
            {MethodCall("color", v, "", None, None, l) :
                v \in ColorArgs, l \in Optional(PartLists)}
      [] s = "ThreeNoteLinearSegmentTheoryResult" ->
            {MethodCall("color", v, "", a, None, None) :
                v \in ColorArgs, a \in Optional(SUBSET (1 .. 3))}
      [] s = "VerticalityNTupletTheoryResult" ->
            {MethodCall("color", v, "", a, p, None) :
                v \in ColorArgs, a \in {None, Some({1, 3})}, p \in Optional(c.tnlsKeys)}
            \cup {MethodCall("markNoteEditorial", v, k, None, None, d) :
                v \in MiscValues, k \in MiscKeys,
                d \in {e \in Optional(MarkDicts) :
                          /\ ~NTuplet_markRaises(c, e)
                          /\ e.some => (Len(e.val) <= 1 /\ \A i \in 1 .. Len(e.val) :
                                                            Len(e.val[i][2]) <= 1)}}

\* Dispatch of a call to the method of the result's class.
Apply(s, c, x, k) ==
    CASE k.op = "color" /\ s = "TheoryResult" -> TheoryResult_color(x, k.value)
      [] k.op = "color" /\ s = "VLQTheoryResult" ->
            VLQ_color(x, k.value, IF k.sel.some THEN k.sel.val ELSE VLQ_defaultNoteList)
      [] k.op = "color" /\ s = "IntervalTheoryResult" ->
            Interval_color(x, k.value,
                           IF k.sel.some THEN k.sel.val ELSE Interval_defaultNoteList)
      [] k.op = "color" /\ s = "NoteTheoryResult" -> Note_color(x, k.value)
      [] k.op = "color" /\ s = "VerticalityTheoryResult" ->
            Verticality_color(x, k.value, k.list)
      [] k.op = "color" /\ s = "ThreeNoteLinearSegmentTheoryResult" ->
            TNLS_color(x, tnls, k.value,
                       IF k.sel.some THEN k.sel.val ELSE TNLS_defaultNoteList)
      [] k.op = "color" /\ s = "VerticalityNTupletTheoryResult" ->
            NTuplet_color(x, c, k.value, k.partNum, k.sel)
      [] k.op = "lyric" ->
            Interval_lyric(x, k.value,
                           IF k.sel.some THEN k.sel.val ELSE Interval_defaultLyricList)
      [] k.op = "markNoteEditorial" /\ s = "VLQTheoryResult" ->
            VLQ_markNoteEditorial(x, k.key, k.value,
                                  IF k.sel.some THEN k.sel.val ELSE VLQ_defaultMarkList)
      [] k.op = "markNoteEditorial" /\ s = "VerticalityNTupletTheoryResult" ->
            NTuplet_markNoteEditorial(x, c, k.key, k.value, k.list)

OrderFirst ==
    /\ phase = "idle"
    /\ \E a, b \in OrderCalls(shape, cfg) :
          /\ w' = Apply(shape, cfg, w, a)
          /\ twin' = Apply(shape, cfg, twin, b)
          /\ call' = [op |-> "order", first |-> a, second |-> b]
    /\ phase' = "first"
    /\ UNCHANGED <<shape, cfg, ret, err, lastColor>>

OrderSecond ==
    /\ phase = "first"
    /\ w' = Apply(shape, cfg, w, call.second)
    /\ twin' = Apply(shape, cfg, twin, call.first)
    /\ phase' = "done"
    /\ UNCHANGED <<shape, cfg, call, ret, err, lastColor>>

OrderCfgs == {c \in NTupletCfgs : c.tnlsKeys = Parts /\ c.partNumIdentified \in {None, Some(0)}}
                \cup {NoCfg}

InitOrder == InitWith(Shapes, OrderCfgs, UniformColors, {0}, NoEntries)

NextOrder ==
    \/ OrderFirst
    \/ OrderSecond

SpecOrder == InitOrder /\ [][NextOrder]_vars

Probe ==
    [text |-> "", value |-> "", currentColor |-> "?",
     color |-> [i \in Notes |-> "?"],
     lyric |-> [i \in Notes |-> "?"],
     misc |-> [i \in Notes |-> [k \in MiscKeys |-> "?"]],
     offset |-> [i \in Notes |-> 0]]

Attributes ==
    {<<"currentColor", 0, "">>}
        \cup {<<"color", i, "">> : i \in Notes}
        \cup {<<"lyric", i, "">> : i \in Notes}
        \cup {<<"misc", i, k>> : i \in Notes, k \in MiscKeys}

ValueAt(x, at) ==
    CASE at[1] = "currentColor" -> x.currentColor
      [] at[1] = "color" -> x.color[at[2]]
      [] at[1] = "lyric" -> x.lyric[at[2]]
      [] at[1] = "misc" -> x.misc[at[2]][at[3]]

\* y is the probe after a call: the attributes that call assigned.
Assigned(y) == {at \in Attributes : ValueAt(y, at) # "?"}

\* No attribute is assigned different values by the two calls.
NoConflict(a, b) ==
    LET ya == Apply(shape, cfg, Probe, a)
        yb == Apply(shape, cfg, Probe, b)
    IN \A at \in Assigned(ya) \cap Assigned(yb) : ValueAt(ya, at) = ValueAt(yb, at)

C10_WitnessSameValue ==
    /\ phase = "done"
    /\ shape = "IntervalTheoryResult"
    /\ call.first = MethodCall("lyric", "6", "", Some({1, 2}), None, None)
    /\ call.second = MethodCall("lyric", "6", "", None, None, None)
    /\ NoConflict(call.first, call.second)
    /\ w = twin
    /\ w.lyric[noteStart] = "6" /\ w.lyric[noteEnd] = "6"

====
